---- MODULE Spec2Model ----
(***************************************************************************)
(* Funnel Mastermind AI (streamlit_app.py): the knowledge store, the       *)
(* per-session state (messages, has_documents), the check_documents cache  *)
(* and the chat and upload handlers, as a state machine.                   *)
(*                                                                         *)
(* One browser session is followed at a time; NewSession discards its      *)
(* session state and starts the next one.  The external services (OpenAI   *)
(* embeddings and chat completions, the Supabase table and RPC, pypdf) are *)
(* inputs of the actions: every call either succeeds or raises.            *)
(***************************************************************************)
EXTENDS Integers, Sequences, FiniteSets, TLC

VARIABLES store, nextId, session_state, cache, now, sid, last

vars == <<store, nextId, session_state, cache, now, sid, last>>

---------------------------------------------------------------------------
(* Bounds of the model *)

\* identifiers uuid4 hands out in one behaviour of the ingestion view
MaxIds == 4
\* identifiers handed out in one behaviour of the whole application
SessionIds == 1
\* identifiers handed out in one behaviour of the answering view
AnswerIds == 2
\* conversation turns of one session in the answering view
MaxTurns == 2
\* conversation turns of one session in the whole application
SessionTurns == 2
MaxSessions == 2
\* seconds that pass in one Tick, and the last instant a Tick may start at
TickStep == 200
MaxTime == 400

(* Program constants *)

\* @st.cache_data(ttl=300)
TTL == 300
\* search_knowledge_base(query, top_k=5)
top_k == 5

---------------------------------------------------------------------------
(* Input domains *)

\* What page.extract_text() yields for a page: nothing, or a span of text
\* long enough that two consecutive spans never share a 1000-character chunk.
\* An uploaded file is a sequence of pages; pypdf reads all of them (valid)
\* or raises after the pages listed.
Pdfs ==
  { [valid |-> FALSE, pages |-> <<"c1">>],
    [valid |-> TRUE,  pages |-> <<>>],
    [valid |-> TRUE,  pages |-> <<"">>],
    [valid |-> TRUE,  pages |-> <<"c1">>],
    [valid |-> TRUE,  pages |-> <<"c2", "", "c1">>] }

\* the files uploaded in the view of the whole application
\* the files uploaded in the answering view
AnswerPdfs ==
  { [valid |-> TRUE,  pages |-> <<"c1">>],
    [valid |-> TRUE,  pages |-> <<"c1", "c2">>] }

SessionPdfs ==
  { [valid |-> FALSE, pages |-> <<>>],
    [valid |-> TRUE,  pages |-> <<"">>],
    [valid |-> TRUE,  pages |-> <<"c1">>] }

\* the fields of upload_form: title, author (optional), category (optional)
Forms ==
  { [title |-> "T1", author |-> "",    category |-> "",      filename |-> "a.pdf"],
    [title |-> "T2", author |-> "Ana", category |-> "Funis", filename |-> "b.pdf"] }

SessionForms ==
  { [title |-> "T1", author |-> "",    category |-> "",      filename |-> "a.pdf"] }

Prompts == {"q1"}

\* a record of the table that was not written by store_embeddings and whose
\* metadata carries no title
LegacyRecord ==
  [id |-> 0, content |-> "old", embedding |-> <<"emb", "old">>,
   metadata |-> ("filename" :> "old.pdf")]

---------------------------------------------------------------------------
(* Helpers *)

Min(a, b) == IF a < b THEN a ELSE b

InSeq(x, s) == \E i \in 1..Len(s) : s[i] = x

EmptyFcn == <<>>

HasKey(f, k) == k \in DOMAIN f

\* client.embeddings.create(...).data[0].embedding
Embedding(text) == <<"emb", text>>

---------------------------------------------------------------------------
(* Document ingestion: extract_text_from_pdf, split_text, store_embeddings *)

\* The external call of an upload that raises, if any: reading the uploaded
\* file, the table probe of store_embeddings, or the embedding / the insert
\* of chunk k (1-based).
NoFailure == [at |-> "none", k |-> 0]

UploadFailures(pdf, mayFail) ==
  IF ~mayFail THEN {NoFailure} ELSE
  LET n == IF pdf.valid
           THEN Cardinality({i \in 1..Len(pdf.pages) : pdf.pages[i] # ""})
           ELSE 0
  IN  {NoFailure, [at |-> "read", k |-> 0]}
        \cup (IF pdf.valid /\ Len(pdf.pages) > 0
              THEN {[at |-> "select", k |-> 0]} ELSE {})
        \cup {[at |-> a, k |-> k] : a \in {"embed", "insert"}, k \in 1..n}

\* for page in reader.pages: text += page.extract_text() + "\n"
\* A text is the sequence of its spans and line ends.
RECURSIVE ReadPages(_, _, _)
ReadPages(pages, i, text) ==
  IF i > Len(pages) THEN text
  ELSE ReadPages(pages, i + 1,
         text \o (IF pages[i] = "" THEN <<>> ELSE <<pages[i]>>) \o <<"\n">>)

\* Variant: the except clause hands back the text read so far.
extract_text_partial(pdf_file, fail) ==
  IF fail.at = "read"
  THEN [raised |-> TRUE, isNone |-> FALSE, text |-> <<>>, shown |-> <<>>]
  ELSE [raised |-> FALSE, isNone |-> FALSE,
        text |-> ReadPages(pdf_file.pages, 1, <<>>),
        shown |-> IF pdf_file.valid THEN <<>> ELSE <<"pdf_error">>]

\* Returns the text, or None after st.error when pypdf cannot read the file;
\* writing the temporary copy happens before the try and may raise.
extract_text_from_pdf(pdf_file, fail) ==
  IF fail.at = "read"
  THEN [raised |-> TRUE, isNone |-> FALSE, text |-> <<>>, shown |-> <<>>]
  ELSE IF ~pdf_file.valid
  THEN [raised |-> FALSE, isNone |-> TRUE, text |-> <<>>, shown |-> <<"pdf_error">>]
  ELSE [raised |-> FALSE, isNone |-> FALSE,
        text |-> ReadPages(pdf_file.pages, 1, <<>>), shown |-> <<>>]

\* RecursiveCharacterTextSplitter(chunk_size=1000, chunk_overlap=200): the
\* spans are cut apart at the line ends and empty pieces are dropped.
split_text(text) == SelectSeq(text, LAMBDA s : s # "\n")

\* metadata = {"title": title, "filename": ...}; author and category are
\* added when they are not empty
BuildMetadata(form) ==
  ("title" :> form.title) @@ ("filename" :> form.filename)
    @@ (IF form.author # "" THEN ("author" :> form.author) ELSE EmptyFcn)
    @@ (IF form.category # "" THEN ("category" :> form.category) ELSE EmptyFcn)

\* Variant: chunks are numbered from 1.
FullMetadataOneBased(metadata, i) == ("chunk_index" :> i + 1) @@ metadata

\* full_metadata = metadata.copy(); full_metadata["chunk_index"] = i
FullMetadata(metadata, i) == ("chunk_index" :> i) @@ metadata

\* The loop of store_embeddings from chunk i (1-based) on; acc carries the
\* table, the next fresh identifier and the calls made so far.
RECURSIVE StoreLoop(_, _, _, _, _)
StoreLoop(i, chunks, metadata, fail, acc) ==
  IF i > Len(chunks) THEN acc
  ELSE IF fail.at = "embed" /\ fail.k = i
  THEN [acc EXCEPT !.raised = TRUE, !.embedCalls = @ + 1]
  ELSE IF fail.at = "insert" /\ fail.k = i
  THEN [acc EXCEPT !.raised = TRUE, !.embedCalls = @ + 1, !.insertCalls = @ + 1]
  ELSE StoreLoop(i + 1, chunks, metadata, fail,
         [acc EXCEPT
            !.store = Append(@, [id |-> acc.nextId,
                                 content |-> chunks[i],
                                 embedding |-> Embedding(chunks[i]),
                                 metadata |-> FullMetadata(metadata, i - 1)]),
            !.nextId = @ + 1,
            !.embedCalls = @ + 1,
            !.insertCalls = @ + 1])

\* Variant: a failed ingestion leaves the table as it found it.
store_embeddings_atomic(chunks, metadata, st, id0, fail) ==
  LET acc0 == [store |-> st, nextId |-> id0, raised |-> FALSE,
               embedCalls |-> 0, insertCalls |-> 0, count |-> 0]
      r    == StoreLoop(1, chunks, metadata, fail, acc0)
  IN  IF fail.at = "select" THEN [acc0 EXCEPT !.raised = TRUE]
      ELSE IF r.raised THEN [r EXCEPT !.store = st]
      ELSE [r EXCEPT !.count = Len(chunks)]

\* Returns len(chunks) unless a call raises.
store_embeddings(chunks, metadata, st, id0, fail) ==
  LET acc0 == [store |-> st, nextId |-> id0, raised |-> FALSE,
               embedCalls |-> 0, insertCalls |-> 0, count |-> 0]
  IN  IF fail.at = "select"
      THEN [acc0 EXCEPT !.raised = TRUE]
      ELSE LET r == StoreLoop(1, chunks, metadata, fail, acc0)
           IN  IF r.raised THEN r ELSE [r EXCEPT !.count = Len(chunks)]

---------------------------------------------------------------------------
(* check_documents and the end of the script *)

\* Variant: a stored result never expires.
check_documents_no_ttl(cch, st, t, probeFail) ==
  IF cch.valid
  THEN [value |-> cch.value, cache |-> cch, probed |-> FALSE]
  ELSE LET v == IF probeFail THEN FALSE ELSE Len(st) > 0
       IN  [value |-> v,
            cache |-> [valid |-> TRUE, value |-> v, at |-> t],
            probed |-> TRUE]

\* @st.cache_data(ttl=300): the stored result is returned while it is
\* younger than the ttl; otherwise the table is probed (an exception counts
\* as False) and the result is stored.
check_documents(cch, st, t, probeFail) ==
  IF cch.valid /\ t - cch.at < TTL
  THEN [value |-> cch.value, cache |-> cch, probed |-> FALSE]
  ELSE LET v == IF probeFail THEN FALSE ELSE Len(st) > 0
       IN  [value |-> v,
            cache |-> [valid |-> TRUE, value |-> v, at |-> t],
            probed |-> TRUE]

\* if "messages" not in st.session_state: st.session_state.messages = []
InitMessages(ss) ==
  IF HasKey(ss, "messages") THEN ss ELSE ss @@ ("messages" :> <<>>)

\* Variant: the flag is refreshed from check_documents on every run.
ScriptTailAlways(ss, cch, st, t, probeFail) ==
  LET c == check_documents(cch, st, t, probeFail)
  IN  [ss |-> ("has_documents" :> c.value) @@ ss,
       cache |-> c.cache, probed |-> c.probed]

\* if "has_documents" not in st.session_state:
\*     st.session_state.has_documents = check_documents()
ScriptTail(ss, cch, st, t, probeFail) ==
  IF HasKey(ss, "has_documents")
  THEN [ss |-> ss, cache |-> cch, probed |-> FALSE]
  ELSE LET c == check_documents(cch, st, t, probeFail)
       IN  [ss |-> ss @@ ("has_documents" :> c.value),
            cache |-> c.cache, probed |-> c.probed]

\* whether the end of the script would probe the table
WouldProbe(ss, cch, t) ==
  ~HasKey(ss, "has_documents") /\ ~(cch.valid /\ t - cch.at < TTL)

---------------------------------------------------------------------------
(* Answering: search_knowledge_base, ask_with_knowledge, ask_gpt *)

\* What the match_documents RPC may return: up to top_k rows of the table,
\* ranked by the store (a sequence of distinct row positions).
MatchResults(st) ==
  UNION {{m \in [1..k -> 1..Len(st)] :
            \A i, j \in 1..k : i # j => m[i] # m[j]} :
         k \in 0..Min(top_k, Len(st))}

\* result.data of the RPC, best match first
match_documents(st, matches) ==
  [i \in 1..Len(matches) |->
     [id |-> st[matches[i]].id,
      content |-> st[matches[i]].content,
      metadata |-> st[matches[i]].metadata,
      similarity |-> Len(matches) - i + 1]]

\* The external calls of a chat turn: which one raises, if any, and the rows
\* the RPC returns.
ChatOutcomes(grounded, st) ==
  IF grounded
  THEN {[fail |-> f, matches |-> <<>>] : f \in {"embed", "rpc"}}
         \cup {[fail |-> f, matches |-> m] :
                 f \in {"none", "chat"}, m \in MatchResults(st)}
  ELSE {[fail |-> f, matches |-> <<>>] : f \in {"none", "chat"}}

search_knowledge_base(query, st, out) ==
  IF out.fail \in {"embed", "rpc"}
  THEN [raised |-> TRUE, contexts |-> <<>>]
  ELSE LET data == match_documents(st, out.matches)
       IN  IF data = <<>>
           THEN [raised |-> FALSE, contexts |-> <<>>]
           ELSE [raised |-> FALSE,
                 contexts |-> [i \in 1..Len(data) |->
                                 [content |-> data[i].content,
                                  metadata |-> data[i].metadata,
                                  similarity |-> data[i].similarity]]]

\* An answer: the completion of a prompt (or the error text), and the
\* Fontes section appended to it.
ErrorAnswer(prompt) ==
  [kind |-> "error", system |-> "", question |-> prompt,
   context |-> <<>>, fontes |-> FALSE, sources |-> <<>>]

\* try: chat completion with system_prompt and prompt
\* except: return "Erro ao processar: ..."
ask_gpt(prompt, system_prompt, out) ==
  IF out.fail = "chat"
  THEN ErrorAnswer(prompt)
  ELSE [kind |-> "completion", system |-> system_prompt, question |-> prompt,
        context |-> <<>>, fontes |-> FALSE, sources |-> <<>>]

\* Variant: every title is appended, listed or not.
RECURSIVE CollectSourcesAll(_, _, _)
CollectSourcesAll(contexts, i, sources) ==
  IF i > Len(contexts) THEN sources
  ELSE LET md == contexts[i].metadata
       IN  IF HasKey(md, "title")
           THEN CollectSourcesAll(contexts, i + 1, Append(sources, md["title"]))
           ELSE CollectSourcesAll(contexts, i + 1, sources)

\* for context in contexts: a title not yet listed is appended
RECURSIVE CollectSources(_, _, _)
CollectSources(contexts, i, sources) ==
  IF i > Len(contexts) THEN sources
  ELSE LET md == contexts[i].metadata
       IN  IF HasKey(md, "title") /\ ~InSeq(md["title"], sources)
           THEN CollectSources(contexts, i + 1, Append(sources, md["title"]))
           ELSE CollectSources(contexts, i + 1, sources)

\* if sources: answer += "\n\n**Fontes:**\n" and one line per source
AddSources(answer, sources) ==
  IF sources # <<>>
  THEN [answer EXCEPT !.fontes = TRUE, !.sources = sources]
  ELSE answer

\* Variant: an empty search result is answered from the (empty) context.
ask_with_knowledge_no_fallback(question, st, out) ==
  LET found == search_knowledge_base(question, st, out)
  IN  IF found.raised \/ out.fail = "chat"
      THEN [raised |-> TRUE, contexts |-> found.contexts, path |-> "knowledge",
            answer |-> ErrorAnswer(question)]
      ELSE [raised |-> FALSE, contexts |-> found.contexts, path |-> "knowledge",
            answer |->
              AddSources(
                [kind |-> "completion", system |-> "KNOWLEDGE_PROMPT",
                 question |-> question,
                 context |-> [i \in 1..Len(found.contexts) |->
                                found.contexts[i].content],
                 fontes |-> FALSE, sources |-> <<>>],
                CollectSources(found.contexts, 1, <<>>))]

ask_with_knowledge(question, st, out) ==
  LET found == search_knowledge_base(question, st, out)
  IN  IF found.raised
      THEN [raised |-> TRUE, contexts |-> <<>>, path |-> "knowledge",
            answer |-> ErrorAnswer(question)]
      ELSE IF found.contexts = <<>>
      THEN [raised |-> FALSE, contexts |-> <<>>, path |-> "gpt",
            answer |-> ask_gpt(question, "SYSTEM_PROMPT", out)]
      ELSE IF out.fail = "chat"
      THEN [raised |-> TRUE, contexts |-> found.contexts, path |-> "knowledge",
            answer |-> ErrorAnswer(question)]
      ELSE [raised |-> FALSE, contexts |-> found.contexts, path |-> "knowledge",
            answer |->
              AddSources(
                [kind |-> "completion", system |-> "KNOWLEDGE_PROMPT",
                 question |-> question,
                 context |-> [i \in 1..Len(found.contexts) |->
                                found.contexts[i].content],
                 fontes |-> FALSE, sources |-> <<>>],
                CollectSources(found.contexts, 1, <<>>))]

\* "has_documents" in st.session_state and st.session_state.has_documents
HasDocuments(ss) == HasKey(ss, "has_documents") /\ ss["has_documents"]

\* The branch of the chat handler that obtains the response.
ChatResponse(ss, prompt, st, out) ==
  IF HasDocuments(ss)
  THEN ask_with_knowledge(prompt, st, out)
  ELSE [raised |-> FALSE, contexts |-> <<>>, path |-> "gpt",
        answer |-> ask_gpt(prompt, "SYSTEM_PROMPT", out)]

---------------------------------------------------------------------------
(* State *)

\* what the most recent handler did
Idle ==
  [op |-> "none", escaped |-> FALSE, probed |-> FALSE, probeFail |-> FALSE,
   flag |-> FALSE, path |-> "none", fail |-> NoFailure, out |-> "none",
   matched |-> 0, parsed |-> TRUE,
   contexts |-> <<>>, answer |-> ErrorAnswer(""),
   extract |-> "none", chunks |-> <<>>, metadata |-> EmptyFcn,
   count |-> 0, embedCalls |-> 0, insertCalls |-> 0, shown |-> <<>>]

Init ==
  /\ store \in {<<>>, <<LegacyRecord>>}
  /\ nextId = 1
  /\ session_state = EmptyFcn
  /\ cache = [valid |-> FALSE, value |-> FALSE, at |-> 0]
  /\ now = 0
  /\ sid = 1
  /\ last = Idle

\* A run of the script without a submitted form or chat input (the first
\* run of a session, or a rerun).
ScriptRun ==
  \E probeFail \in BOOLEAN :
    /\ probeFail => WouldProbe(session_state, cache, now)
    /\ LET ss1 == InitMessages(session_state)
           tl  == ScriptTail(ss1, cache, store, now, probeFail)
       IN  /\ session_state' = tl.ss
           /\ cache' = tl.cache
           /\ last' = [Idle EXCEPT !.op = "run", !.probed = tl.probed,
                                   !.probeFail = probeFail]
    /\ UNCHANGED <<store, nextId, now, sid>>

\* The chat handler (st.chat_input) and the rest of the script run.  An
\* exception that leaves ask_with_knowledge ends the script run there.
Chat(maxTurns) ==
  /\ HasKey(session_state, "messages")
  /\ Len(session_state["messages"]) + 2 <= maxTurns
  /\ \E prompt \in Prompts :
     \E out \in ChatOutcomes(HasDocuments(session_state), store) :
       LET ss1 == [session_state EXCEPT
                     !["messages"] = Append(@, [role |-> "user", content |-> prompt])]
           r   == ChatResponse(ss1, prompt, store, out)
           ss2 == [ss1 EXCEPT
                     !["messages"] = Append(@, [role |-> "assistant", content |-> r.answer])]
           tl  == ScriptTail(ss2, cache, store, now, FALSE)
           obs == [Idle EXCEPT !.op = "chat", !.flag = HasDocuments(ss1),
                               !.path = r.path, !.out = out.fail,
                               !.matched = Len(out.matches),
                               !.contexts = r.contexts, !.answer = r.answer]
       IN  IF r.raised
           THEN /\ session_state' = ss1
                /\ cache' = cache
                /\ last' = [obs EXCEPT !.escaped = TRUE]
           ELSE /\ session_state' = tl.ss
                /\ cache' = tl.cache
                /\ last' = obs
  /\ UNCHANGED <<store, nextId, now, sid>>

\* The number of chunks an upload of pdf hands to store_embeddings.
ChunkCount(pdf) ==
  IF pdf.valid THEN Len(split_text(ReadPages(pdf.pages, 1, <<>>))) ELSE 0

\* The upload_form handler up to its except clause: the new table and flag,
\* and what st.error / st.success show.
UploadHandler(ss, st, id0, pdf, form, fail) ==
  LET ex   == extract_text_from_pdf(pdf, fail)
      base == [ss |-> ss, store |-> st, nextId |-> id0,
               obs |-> [Idle EXCEPT !.op = "upload", !.fail = fail,
                                    !.parsed = pdf.valid]]
  IN  IF ex.raised
      THEN [base EXCEPT !.obs.extract = "raised",
                        !.obs.shown = <<"generic_error">>]
      ELSE IF ~ex.isNone /\ ex.text # <<>>
      THEN LET chunks   == split_text(ex.text)
               metadata == BuildMetadata(form)
               r        == store_embeddings(chunks, metadata, st, id0, fail)
               obs1     == [base.obs EXCEPT !.extract = "text",
                                            !.chunks = chunks,
                                            !.metadata = metadata,
                                            !.embedCalls = r.embedCalls,
                                            !.insertCalls = r.insertCalls]
           IN  IF r.raised
               THEN [ss |-> ss, store |-> r.store, nextId |-> r.nextId,
                     obs |-> [obs1 EXCEPT !.shown = <<"generic_error">>]]
               ELSE [ss |-> ("has_documents" :> TRUE) @@ ss,
                     store |-> r.store, nextId |-> r.nextId,
                     obs |-> [obs1 EXCEPT !.count = r.count,
                                          !.shown = <<"success">>]]
      ELSE [base EXCEPT !.obs.extract = IF ex.isNone THEN "none" ELSE "empty",
                        !.obs.shown = ex.shown \o <<"no_text">>]

\* A submitted upload form with a file, and the rest of the script run.
Upload(pdfs, forms, maxIds, mayFail) ==
  /\ HasKey(session_state, "messages")
  /\ \E pdf \in pdfs, form \in forms :
       /\ nextId + ChunkCount(pdf) - 1 <= maxIds
       /\ \E fail \in UploadFailures(pdf, mayFail) :
            LET u  == UploadHandler(session_state, store, nextId, pdf, form, fail)
                tl == ScriptTail(u.ss, cache, u.store, now, FALSE)
            IN  /\ session_state' = tl.ss
                /\ cache' = tl.cache
                /\ store' = u.store
                /\ nextId' = u.nextId
                /\ last' = u.obs
  /\ UNCHANGED <<now, sid>>

\* Every record of the table is removed from outside the application.
RemoveAll ==
  /\ store # <<>>
  /\ store' = <<>>
  /\ last' = [Idle EXCEPT !.op = "remove"]
  /\ UNCHANGED <<nextId, session_state, cache, now, sid>>

\* Time passes.
Tick ==
  /\ now < MaxTime
  /\ now' = now + TickStep
  /\ last' = [Idle EXCEPT !.op = "tick"]
  /\ UNCHANGED <<store, nextId, session_state, cache, sid>>

\* The session ends and a new one begins with an empty session state.
NewSession ==
  /\ sid < MaxSessions
  /\ sid' = sid + 1
  /\ session_state' = EmptyFcn
  /\ last' = [Idle EXCEPT !.op = "new"]
  /\ UNCHANGED <<store, nextId, cache, now>>

---------------------------------------------------------------------------
(* The whole application: one session after another, the clock and the     *)
(* check_documents cache, with small uploads.                              *)

SessionChat == Chat(SessionTurns)

SessionUpload == Upload(SessionPdfs, SessionForms, SessionIds, TRUE)

Next ==
  \/ ScriptRun
  \/ SessionChat
  \/ SessionUpload
  \/ RemoveAll
  \/ Tick
  \/ NewSession

Spec == Init /\ [][Next]_vars

(* The ingestion view: uploads of every kind of file, with every failure.  *)

IngestUpload == Upload(Pdfs, Forms, MaxIds, TRUE)

NextIngest ==
  \/ ScriptRun
  \/ IngestUpload

SpecIngest == Init /\ [][NextIngest]_vars

(* The answering view: chat turns over a table filled by uploads.          *)

AnswerChat == Chat(MaxTurns)

AnswerUpload == Upload(AnswerPdfs, Forms, AnswerIds, FALSE)

NextAnswer ==
  \/ ScriptRun
  \/ AnswerUpload
  \/ AnswerChat
  \/ RemoveAll

SpecAnswer == Init /\ [][NextAnswer]_vars

---------------------------------------------------------------------------
(* Properties *)

Messages == IF HasKey(session_state, "messages")
            THEN session_state["messages"] ELSE <<>>

Ids(st) == {st[i].id : i \in 1..Len(st)}

\* C1: whichever path answers a chat submission, a failure of an external
\* call (question embedding, match_documents RPC, chat completion) becomes
\* the answer text; no exception leaves the ask operation for the chat
\* handler.
C1_NoExceptionEscapes ==
  last.op = "chat" => ~last.escaped

\* C2: an ingestion that fails while embedding or inserting chunk K+1 leaves
\* exactly the first K chunks (chunk_index 0..K-1) appended to the table,
\* removes nothing, shows only the generic error and leaves has_documents
\* as it was.
C2_PartialIngestKept ==
  [][ (last'.op = "upload" /\ last'.fail.at \in {"embed", "insert"}) =>
        LET K == last'.fail.k - 1
            n == Len(store)
        IN  /\ K < Len(last'.chunks)
            /\ Len(store') = n + K
            /\ SubSeq(store', 1, n) = store
            /\ \A i \in 1..K :
                 /\ store'[n + i].content = last'.chunks[i]
                 /\ store'[n + i].metadata["chunk_index"] = i - 1
            /\ last'.shown = <<"generic_error">>
            /\ session_state' = session_state ]_vars

C2_Witness ==
  /\ last.op = "upload"
  /\ last.fail = [at |-> "insert", k |-> 2]
  /\ Len(last.chunks) = 2
  /\ Len(store) = 2
  /\ store[1] = LegacyRecord
  /\ store[2].content = last.chunks[1]

\* C3: a successful ingest sets has_documents to True, and once it is True
\* nothing that happens in the same session (a script run, a chat turn, a
\* failed upload, the removal of every record) sets it back.
C3_FlagNeverReverts ==
  [][ /\ (last'.op = "upload" /\ last'.shown = <<"success">>)
           => HasDocuments(session_state')
      /\ (HasDocuments(session_state) /\ sid' = sid)
           => HasDocuments(session_state') ]_vars

C3_Witness ==
  /\ HasDocuments(session_state)
  /\ store = <<>>
  /\ last.op = "chat"
  /\ last.flag

\* C4 as stated: once the cached probe result is older than the window, the
\* flag the next chat turn uses is whether the table holds a record.
C4_ChatFlagFollowsStore ==
  (last.op = "chat" /\ ~(cache.valid /\ now - cache.at < TTL))
    => (last.flag <=> Len(store) > 0)

\* C4 as amended: a chat turn uses the session's has_documents.  The first
\* script run of a session sets it from check_documents: the cached result
\* while that is younger than the 5-minute window, and otherwise a new probe
\* (whether the table holds a record at that moment, False if the probe
\* raises).  After that, within the session, it changes only when a
\* successful upload sets it True.
C4_FlagSetOncePerSession ==
  [][ /\ last'.op = "chat" =>
           /\ last'.flag <=> HasDocuments(session_state)
           /\ ~last'.flag => last'.path = "gpt"
      /\ (~HasKey(session_state, "has_documents")
            /\ HasKey(session_state', "has_documents")) =>
           IF cache.valid /\ now - cache.at < TTL
           THEN /\ session_state'["has_documents"] = cache.value
                /\ ~last'.probed
           ELSE /\ session_state'["has_documents"]
                     = (~last'.probeFail /\ Len(store) > 0)
                /\ last'.probed
      /\ (HasKey(session_state, "has_documents") /\ sid' = sid) =>
           \/ /\ HasKey(session_state', "has_documents")
              /\ session_state'["has_documents"] = session_state["has_documents"]
           \/ /\ last'.op = "upload" /\ last'.shown = <<"success">>
              /\ HasDocuments(session_state') ]_vars

\* a second session starts after the window has passed and the table has
\* changed: its flag comes from a new probe
C4_Witness ==
  /\ sid = 2
  /\ last.op = "run"
  /\ last.probed
  /\ now >= TTL
  /\ HasKey(session_state, "has_documents")
  /\ ~session_state["has_documents"]
  /\ store = <<>>
  /\ nextId > 1

\* C5: when the search comes back with no match (as it does when the table
\* is empty), search_knowledge_base returns the empty sequence and
\* ask_with_knowledge answers through ask_gpt with the base persona prompt,
\* without a grounded prompt and without a Fontes section, also when
\* has_documents is True.
C5_EmptySearchFallsBack ==
  (last.op = "chat" /\ last.flag /\ last.out \notin {"embed", "rpc"}) =>
    /\ store = <<>> => last.matched = 0
    /\ last.matched = 0 =>
         /\ last.contexts = <<>>
         /\ ~last.escaped
         /\ last.path = "gpt"
         /\ last.answer.system # "KNOWLEDGE_PROMPT"
         /\ last.answer.context = <<>>
         /\ ~last.answer.fontes
         /\ last.answer.sources = <<>>
         /\ last.out = "none" =>
              (last.answer.kind = "completion"
                 /\ last.answer.system = "SYSTEM_PROMPT")

C5_Witness ==
  /\ last.op = "chat"
  /\ last.flag
  /\ store = <<>>
  /\ last.path = "gpt"
  /\ last.answer.kind = "completion"
  /\ Messages[Len(Messages)] = [role |-> "assistant", content |-> last.answer]

\* C6: when pypdf cannot read the uploaded file the failure is shown and the
\* upload stores nothing: no embedding call, no insert, the table and
\* has_documents stay as they were.
C6_FailedExtractionStoresNothing ==
  [][ (last'.op = "upload" /\ ~last'.parsed /\ last'.fail.at # "read") =>
        /\ "pdf_error" \in {last'.shown[i] : i \in 1..Len(last'.shown)}
        /\ "success" \notin {last'.shown[i] : i \in 1..Len(last'.shown)}
        /\ last'.embedCalls = 0
        /\ last'.insertCalls = 0
        /\ store' = store
        /\ nextId' = nextId
        /\ session_state' = session_state ]_vars

C6_Witness ==
  /\ last.op = "upload"
  /\ ~last.parsed
  /\ last.shown = <<"pdf_error", "no_text">>
  /\ ~HasDocuments(session_state)
  /\ HasKey(session_state, "has_documents")

\* C7: an ingestion of N chunks that completes appends exactly N records, one
\* per chunk in order, each with the caller's metadata plus chunk_index equal
\* to its 0-based position and an identifier no record had, and returns N;
\* nothing already in the table is replaced.
C7_IngestAppendsN ==
  [][ (last'.op = "upload" /\ last'.shown = <<"success">>) =>
        LET N  == Len(last'.chunks)
            n  == Len(store)
            md == last'.metadata
        IN  /\ last'.count = N
            /\ Len(store') = n + N
            /\ SubSeq(store', 1, n) = store
            /\ \A i \in 1..N :
                 LET rec == store'[n + i]
                 IN  /\ rec.content = last'.chunks[i]
                     /\ DOMAIN rec.metadata = DOMAIN md \cup {"chunk_index"}
                     /\ \A k \in DOMAIN md : rec.metadata[k] = md[k]
                     /\ rec.metadata["chunk_index"] = i - 1
                     /\ rec.id \notin Ids(store)
            /\ Cardinality(Ids(store')) = Len(store') ]_vars

\* the same two-chunk document ingested twice: four records, the same
\* content and metadata under different identifiers
C7_Witness ==
  /\ last.op = "upload"
  /\ last.shown = <<"success">>
  /\ Len(last.chunks) = 2
  /\ Len(store) = 4
  /\ \A i \in 1..2 :
       /\ store[i].content = store[i + 2].content
       /\ store[i].metadata = store[i + 2].metadata
       /\ store[i].id # store[i + 2].id

TitlesOf(contexts) ==
  {contexts[i].metadata["title"] :
     i \in {j \in 1..Len(contexts) : HasKey(contexts[j].metadata, "title")}}

FirstWith(contexts, t) ==
  CHOOSE i \in 1..Len(contexts) :
    /\ HasKey(contexts[i].metadata, "title") /\ contexts[i].metadata["title"] = t
    /\ \A j \in 1..(i - 1) :
         ~(HasKey(contexts[j].metadata, "title") /\ contexts[j].metadata["title"] = t)

\* C8: for a non-empty sequence of retrieved chunks the grounded answer has
\* a Fontes section exactly when some retrieved chunk's metadata has a
\* title; the section lists every distinct title once, in the order of first
\* occurrence in the retrieved sequence, and nothing else.
C8_FontesListsTitles ==
  (last.op = "chat" /\ last.contexts # <<>> /\ ~last.escaped) =>
    LET c == last.contexts
        a == last.answer
    IN  /\ a.fontes <=> TitlesOf(c) # {}
        /\ {a.sources[i] : i \in 1..Len(a.sources)} = TitlesOf(c)
        /\ \A i, j \in 1..Len(a.sources) :
             i < j => /\ a.sources[i] # a.sources[j]
                      /\ FirstWith(c, a.sources[i]) < FirstWith(c, a.sources[j])

C8_Witness ==
  /\ last.op = "chat"
  /\ ~last.escaped
  /\ Len(last.contexts) = 3
  /\ \E i \in 1..3 : ~HasKey(last.contexts[i].metadata, "title")
  /\ last.answer.fontes
  /\ last.answer.sources = <<"T2", "T1">>

\* C9: the conversation history always alternates user, assistant and has
\* even length between interactions, whether the answering call succeeds or
\* fails.
C9_HistoryWellPaired ==
  /\ Len(Messages) % 2 = 0
  /\ \A i \in 1..Len(Messages) :
       Messages[i].role = IF i % 2 = 1 THEN "user" ELSE "assistant"

\* C10: whenever the upload handler sets has_documents to True, that upload
\* inserted at least one chunk record (store_embeddings returned 1 or more).
C10_FlagOnlyAfterInsert ==
  (last.op = "upload" /\ last.shown = <<"success">>) =>
    (last.count >= 1 /\ last.insertCalls >= 1)

====
